---- MODULE Spec2Model ----
(***************************************************************************)
(* Model of ash (src/main.rs): an XMPP multi-user-chat bot.  main() builds *)
(* a registry of rooms from the configuration, replays the message table   *)
(* of its SQLite database into a vector of Markov "brains", and then runs  *)
(* one loop that handles the client's events one at a time.                *)
(*                                                                         *)
(* Strings whose characters the code inspects (nicks, message bodies) are  *)
(* sequences of one-character strings; room node and domain are atoms.     *)
(* Instants are whole seconds on the monotonic clock; 0 is process start.  *)
(***************************************************************************)
EXTENDS Integers, Sequences, FiniteSets, TLC

\* ------------------------------------------------------------------ bounds
\* Events (online, stanzas) the loop takes from the client in one run.
MaxEvents == 2
\* The monotonic clock advances in steps of TimeStep seconds up to MaxTime.
TimeStep == 150
MaxTime == 300
\* The longest message table the process starts with.
MaxHistory == 2

\* --------------------------------------------------------------- constants
\* Duration::from_secs(99999) of Room::new.
LongAgoSecs == 99999
\* min_seconds of the three should_send calls.
JabberMinSeconds == 120
DadMinSeconds == 300
RandomMinSeconds == 300
\* pct of the calls of chance, in thousandths (0.5, 0.5, 0.01, 0.5).
JabberPct == 500
DadPct == 500
RandomPct == 10
CoinPct == 500

\* ------------------------------------------------------------ Option<T>
\* None carries a filler of the value's type, so that two options always
\* compare.
NoneOf(filler) == [some |-> FALSE, val |-> filler]
Some(v) == [some |-> TRUE, val |-> v]

\* ---------------------------------------------------------------- strings
UpperChars == <<"A", "B", "C", "D", "E", "F", "G", "H", "I", "J", "K", "L", "M",
                "N", "O", "P", "Q", "R", "S", "T", "U", "V", "W", "X", "Y", "Z">>
LowerChars == <<"a", "b", "c", "d", "e", "f", "g", "h", "i", "j", "k", "l", "m",
                "n", "o", "p", "q", "r", "s", "t", "u", "v", "w", "x", "y", "z">>

LowerOf ==
    [c \in {UpperChars[i] : i \in 1..Len(UpperChars)} |->
        LowerChars[CHOOSE i \in 1..Len(UpperChars) : UpperChars[i] = c]]

\* char::to_lowercase on the ASCII letters; every other character is kept.
lower_char(c) == IF c \in DOMAIN LowerOf THEN LowerOf[c] ELSE c

\* str::to_lowercase
to_lowercase(s) == [i \in 1..Len(s) |-> lower_char(s[i])]

\* str::starts_with(&str): case-sensitive prefix test.
starts_with(s, p) ==
    /\ Len(p) <= Len(s)
    /\ \A i \in 1..Len(p) : s[i] = p[i]

\* str::contains(&str): p occurs somewhere in s.
contains(s, p) ==
    \E k \in 0..(Len(s) - Len(p)) : \A i \in 1..Len(p) : s[k + i] = p[i]

\* str::trim_start_matches(&str): removes the prefix p as often as it
\* repeats at the start of s.
RECURSIVE trim_start_matches(_, _)
trim_start_matches(s, p) ==
    IF Len(p) > 0 /\ starts_with(s, p)
    THEN trim_start_matches(SubSeq(s, Len(p) + 1, Len(s)), p)
    ELSE s

\* str::trim_start_matches([char; N]): removes leading characters of cs.
RECURSIVE trim_start_chars(_, _)
trim_start_chars(s, cs) ==
    IF Len(s) > 0 /\ s[1] \in cs
    THEN trim_start_chars(Tail(s), cs)
    ELSE s

\* The characters line 236 trims after the nick.
Separators == {",", ":", " "}

\* The patterns of the should_send calls and the keywords of directed_message.
KwJabber == <<"j", "a", "b", "b", "e", "r">>
KwDad == <<"d", "a", "d">>
KwRepo == <<"r", "e", "p", "o">>
KwCode == <<"c", "o", "d", "e">>
KwWords == <<"w", "o", "r", "d", "s">>
KwEmpty == <<>>

\* ---------------------------------------------------------------- replies
\* A reply text: its kind, a number (the joke's index, the word count, the
\* chain that generated it) and the seed text of a generated utterance.
Reply(kind, n, text) == [kind |-> kind, n |-> n, text |-> text]
NoReply == Reply("", 0, <<>>)
NoneReply == NoneOf(NoReply)

\* const XMPP_NOT_JABBER
XMPP_NOT_JABBER == Reply("xmpp_not_jabber", 0, <<>>)
\* const DAD_JOKES: the corpus, two of its entries.
DAD_JOKES == <<Reply("dad_joke", 1, <<>>), Reply("dad_joke", 2, <<>>)>>
\* The literal of line 43.
REPO_URL == Reply("repo_url", 0, <<>>)
\* format!("I know {} words!", n)
words_reply(n) == Reply("words", n, <<>>)

\* Result<Option<String>>
Ok(opt) == [ok |-> TRUE, some |-> opt.some, val |-> opt.val]
Err == [ok |-> FALSE, some |-> FALSE, val |-> NoReply]

\* --------------------------------------------------------------- the Brain
\* A Brain (rustkov) is the sequence of the texts it has ingested.
NewBrain == <<>>

\* Brain::ingest
ingest(b, text) == Append(b, text)

\* The number of words of a text: its maximal runs of non-space characters.
word_count(s) ==
    Cardinality({i \in 1..Len(s) : s[i] # " " /\ (i = 1 \/ s[i - 1] = " ")})

\* Brain::stats().get_total_words(): the words of all ingested texts.
RECURSIVE get_total_words(_)
get_total_words(b) ==
    IF Len(b) = 0 THEN 0 ELSE word_count(Head(b)) + get_total_words(Tail(b))

\* The handlers always given chain 0.
BrainRef_zero(brain, idx) == [idx |-> 0, texts |-> brain[0]]

\* &mut brain[idx]: the slot of the pool a handler is given.
BrainRef(brain, idx) == [idx |-> idx, texts |-> brain[idx]]

\* Brain::generate, a Result<Option<String>>: it may fail, have nothing to
\* say, or yield an utterance that depends on the chain and the seed text.
generate(b, seed) ==
    {Err, Ok(NoneReply), Ok(Some(Reply("generated", b.idx, seed)))}

\* ------------------------------------------------------------- randomness
\* The operators that draw random numbers or call a collaborator that may
\* fail denote the set of their possible results.
\* rng.gen_range(0f64..1f64) in thousandths: a draw below every pct, one
\* between the pct values of the code, and one at the largest pct.
Draws == {0, RandomPct, JabberPct}

\* pct >= the number drawn.
chance_inclusive(pct) == {[draw |-> draw, hit |-> pct >= draw] : draw \in Draws}

\* fn chance(pct): the number drawn and the value returned.
chance(pct) == {[draw |-> draw, hit |-> pct > draw] : draw \in Draws}

\* fn choose(choices)
choose(choices) ==
    IF Len(choices) = 0
    THEN {NoneReply}
    ELSE {Some(choices[i]) : i \in 1..Len(choices)}

\* ------------------------------------------------------------------- Room
\* should_send without its test of the seconds since *last_sent.
should_send_no_pattern(body, last_sent, pattern, min_seconds, pct, t) ==
    IF t - last_sent >= min_seconds
    THEN {[send |-> c.hit,
           last_sent |-> IF c.hit THEN t ELSE last_sent,
           draws |-> <<c.draw>>] : c \in chance(pct)}
    ELSE {[send |-> FALSE, last_sent |-> last_sent, draws |-> <<>>]}

should_send_no_interval(body, last_sent, pattern, min_seconds, pct, t) ==
    IF Len(pattern) = 0 \/ contains(body, pattern)
    THEN {[send |-> c.hit,
           last_sent |-> IF c.hit THEN t ELSE last_sent,
           draws |-> <<c.draw>>] : c \in chance(pct)}
    ELSE {[send |-> FALSE, last_sent |-> last_sent, draws |-> <<>>]}

\* fn should_send at Instant t: whether to send, the value it leaves in
\* *last_sent and the numbers it drew.  chance is called only when the
\* first two conditions hold.
should_send(body, last_sent, pattern, min_seconds, pct, t) ==
    LET last_sent_seconds == t - last_sent
    IN  IF /\ last_sent_seconds >= min_seconds
           /\ (Len(pattern) = 0 \/ contains(body, pattern))
        THEN {[send |-> c.hit,
               last_sent |-> IF c.hit THEN t ELSE last_sent,
               draws |-> <<c.draw>>] : c \in chance(pct)}
        ELSE {[send |-> FALSE, last_sent |-> last_sent, draws |-> <<>>]}

\* The clocks started at the Instant the room is made.
NewRoom_now(nick, jid, chain_indices, t) ==
    [nick |-> nick, chain_indices |-> chain_indices, jid |-> jid,
     last_sent_jabber |-> t,
     last_sent_dad |-> t,
     last_sent_random |-> t]

\* Room::new at Instant t
NewRoom(nick, jid, chain_indices, t) ==
    LET long_ago == t - LongAgoSecs
    IN  [nick |-> nick, chain_indices |-> chain_indices, jid |-> jid,
         last_sent_jabber |-> long_ago,
         last_sent_dad |-> long_ago,
         last_sent_random |-> long_ago]

\* What a message handler of Room returns: the room as it leaves it, the
\* Result<Option<String>>, the category whose should_send returned true and
\* the numbers the calls of chance drew, in order.
Handled(room, result, fired, draws) ==
    [room |-> room, result |-> result, fired |-> fired, draws |-> draws]

\* directed_message behind the cooldown of the random category.
directed_message_gated(room, orig_body, b, t) ==
    LET body == to_lowercase(orig_body)
        results ==
            CASE body = KwJabber -> {Ok(Some(XMPP_NOT_JABBER))}
              [] body = KwDad -> {Ok(c) : c \in choose(DAD_JOKES)}
              [] body = KwRepo \/ body = KwCode -> {Ok(Some(REPO_URL))}
              [] body = KwWords -> {Ok(Some(words_reply(get_total_words(b.texts))))}
              [] OTHER -> generate(b, orig_body)
    IN  IF t - room.last_sent_random >= RandomMinSeconds
        THEN {Handled([room EXCEPT !.last_sent_random = t], r, "none", <<>>)
                 : r \in results}
        ELSE {Handled(room, Ok(NoneReply), "none", <<>>)}

\* The word count taken after the message was ingested.
directed_message_counts_current(room, orig_body, b, t) ==
    LET body == to_lowercase(orig_body)
        results ==
            CASE body = KwJabber -> {Ok(Some(XMPP_NOT_JABBER))}
              [] body = KwDad -> {Ok(c) : c \in choose(DAD_JOKES)}
              [] body = KwRepo \/ body = KwCode -> {Ok(Some(REPO_URL))}
              [] body = KwWords ->
                    {Ok(Some(words_reply(get_total_words(ingest(b.texts, orig_body)))))}
              [] OTHER -> generate(b, orig_body)
    IN  {Handled(room, r, "none", <<>>) : r \in results}

\* The generator seeded with the lower-cased body.
directed_message_folded_seed(room, orig_body, b, t) ==
    LET body == to_lowercase(orig_body)
        results ==
            CASE body = KwJabber -> {Ok(Some(XMPP_NOT_JABBER))}
              [] body = KwDad -> {Ok(c) : c \in choose(DAD_JOKES)}
              [] body = KwRepo \/ body = KwCode -> {Ok(Some(REPO_URL))}
              [] body = KwWords -> {Ok(Some(words_reply(get_total_words(b.texts))))}
              [] OTHER -> generate(b, body)
    IN  {Handled(room, r, "none", <<>>) : r \in results}

\* The jabber and dad clocks set by a directed body that has the substring.
directed_message_touching(room, orig_body, b, t) ==
    LET body == to_lowercase(orig_body)
        results ==
            CASE body = KwJabber -> {Ok(Some(XMPP_NOT_JABBER))}
              [] body = KwDad -> {Ok(c) : c \in choose(DAD_JOKES)}
              [] body = KwRepo \/ body = KwCode -> {Ok(Some(REPO_URL))}
              [] body = KwWords -> {Ok(Some(words_reply(get_total_words(b.texts))))}
              [] OTHER -> generate(b, orig_body)
        room1 == IF contains(body, KwJabber)
                 THEN [room EXCEPT !.last_sent_jabber = t]
                 ELSE IF contains(body, KwDad)
                 THEN [room EXCEPT !.last_sent_dad = t]
                 ELSE room
    IN  {Handled(room1, r, "none", <<>>) : r \in results}

\* Room::directed_message
directed_message(room, orig_body, b, t) ==
    LET body == to_lowercase(orig_body)
        results ==
            CASE body = KwJabber -> {Ok(Some(XMPP_NOT_JABBER))}
              [] body = KwDad -> {Ok(c) : c \in choose(DAD_JOKES)}
              [] body = KwRepo \/ body = KwCode -> {Ok(Some(REPO_URL))}
              [] body = KwWords -> {Ok(Some(words_reply(get_total_words(b.texts))))}
              [] OTHER -> generate(b, orig_body)
    IN  {Handled(room, r, "none", <<>>) : r \in results}

\* The two outcomes of the draw exchanged.
joke_or_brain_swapped(orig_body, b) ==
    UNION {{[result |-> r, draws |-> <<coin.draw>>]
            : r \in IF coin.hit THEN generate(b, orig_body)
                                ELSE {Ok(c) : c \in choose(DAD_JOKES)}}
           : coin \in chance(CoinPct)}

\* The third branch of Room::non_directed_message (lines 63-68): the
\* result and the number drawn.
joke_or_brain(orig_body, b) ==
    UNION {{[result |-> r, draws |-> <<coin.draw>>]
            : r \in IF coin.hit THEN {Ok(c) : c \in choose(DAD_JOKES)}
                                ELSE generate(b, orig_body)}
           : coin \in chance(CoinPct)}

\* non_directed_message without its early returns: every should_send is
\* called, and the response is that of the first one that returned true.
non_directed_message_no_return(room, orig_body, b, t) ==
    LET body == to_lowercase(orig_body)
    IN  UNION {UNION {UNION {
            LET rm == [room EXCEPT !.last_sent_jabber = j.last_sent,
                                   !.last_sent_dad = d.last_sent,
                                   !.last_sent_random = r.last_sent]
                drawn == j.draws \o d.draws \o r.draws
            IN  IF j.send
                THEN {Handled(rm, Ok(Some(XMPP_NOT_JABBER)), "jabber", drawn)}
                ELSE IF d.send
                THEN {Handled(rm, Ok(c), "dad", drawn) : c \in choose(DAD_JOKES)}
                ELSE IF r.send
                THEN {Handled(rm, x.result, "random", drawn \o x.draws)
                         : x \in joke_or_brain(orig_body, b)}
                ELSE {Handled(rm, Ok(NoneReply), "none", drawn)}
            : r \in should_send(body, room.last_sent_random, KwEmpty,
                                RandomMinSeconds, RandomPct, t)}
            : d \in should_send(body, room.last_sent_dad, KwDad,
                                DadMinSeconds, DadPct, t)}
            : j \in should_send(body, room.last_sent_jabber, KwJabber,
                                JabberMinSeconds, JabberPct, t)}

\* non_directed_message with the dad category tried before the jabber one.
non_directed_message_dad_first(room, orig_body, b, t) ==
    LET body == to_lowercase(orig_body)
        after_random(rm, drawn) ==
            UNION {IF s.send
                   THEN {Handled([rm EXCEPT !.last_sent_random = s.last_sent],
                                 r.result, "random", drawn \o s.draws \o r.draws)
                            : r \in joke_or_brain(orig_body, b)}
                   ELSE {Handled(rm, Ok(NoneReply), "none", drawn \o s.draws)}
                   : s \in should_send(body, rm.last_sent_random, KwEmpty,
                                       RandomMinSeconds, RandomPct, t)}
        after_jabber(rm, drawn) ==
            UNION {IF s.send
                   THEN {Handled([rm EXCEPT !.last_sent_jabber = s.last_sent],
                                 Ok(Some(XMPP_NOT_JABBER)), "jabber", drawn \o s.draws)}
                   ELSE after_random(rm, drawn \o s.draws)
                   : s \in should_send(body, rm.last_sent_jabber, KwJabber,
                                       JabberMinSeconds, JabberPct, t)}
    IN  UNION {IF s.send
               THEN {Handled([room EXCEPT !.last_sent_dad = s.last_sent],
                             Ok(c), "dad", s.draws)
                        : c \in choose(DAD_JOKES)}
               ELSE after_jabber(room, s.draws)
               : s \in should_send(body, room.last_sent_dad, KwDad,
                                   DadMinSeconds, DadPct, t)}

\* Room::non_directed_message
non_directed_message(room, orig_body, b, t) ==
    LET body == to_lowercase(orig_body)
        after_random(rm, drawn) ==
            UNION {IF s.send
                   THEN {Handled([rm EXCEPT !.last_sent_random = s.last_sent],
                                 r.result, "random", drawn \o s.draws \o r.draws)
                            : r \in joke_or_brain(orig_body, b)}
                   ELSE {Handled(rm, Ok(NoneReply), "none", drawn \o s.draws)}
                   : s \in should_send(body, rm.last_sent_random, KwEmpty,
                                       RandomMinSeconds, RandomPct, t)}
        after_dad(rm, drawn) ==
            UNION {IF s.send
                   THEN {Handled([rm EXCEPT !.last_sent_dad = s.last_sent],
                                 Ok(c), "dad", drawn \o s.draws)
                            : c \in choose(DAD_JOKES)}
                   ELSE after_random(rm, drawn \o s.draws)
                   : s \in should_send(body, rm.last_sent_dad, KwDad,
                                       DadMinSeconds, DadPct, t)}
    IN  UNION {IF s.send
               THEN {Handled([room EXCEPT !.last_sent_jabber = s.last_sent],
                             Ok(Some(XMPP_NOT_JABBER)), "jabber", s.draws)}
               ELSE after_dad(room, s.draws)
               : s \in should_send(body, room.last_sent_jabber, KwJabber,
                                   JabberMinSeconds, JabberPct, t)}

\* ------------------------------------------------------------------- JIDs
NoneStr == NoneOf("")
NoneText == NoneOf(<<>>)

\* Jid: node and resource are optional; a FullJid has a resource.
Jid(node, domain, resource) == [node |-> node, domain |-> domain, resource |-> resource]
BareJid(node, domain) == Jid(node, domain, NoneText)
NoneJid == NoneOf(BareJid(NoneStr, ""))

\* BareJid::with_resource
with_resource(jid, resource) == Jid(jid.node, jid.domain, Some(resource))

\* fn make_join
make_join(to) ==
    [kind |-> "presence", type |-> "none", to |-> to, body |-> NoReply,
     muc |-> TRUE, maxstanzas |-> 0]

\* A reply of type chat, the type of a private message.
make_reply_chat(to, body) ==
    [kind |-> "message", type |-> "chat", to |-> to, body |-> body,
     muc |-> FALSE, maxstanzas |-> 0]

\* fn make_reply
make_reply(to, body) ==
    [kind |-> "message", type |-> "groupchat", to |-> to, body |-> body,
     muc |-> FALSE, maxstanzas |-> 0]

\* The results of client.send_stanza(..).await and of conn.execute(..):
\* TRUE is Ok, FALSE is Err.
IoResults == BOOLEAN

\* ------------------------------------------------------- the room registry
\* .unwrap_or("ash") of line 144.
DefaultNick == <<"a", "s", "h">>

\* The bot-wide nick taken before the room's own.
room_nick_botwide_first(rc, cfg) ==
    IF cfg.nick.some THEN cfg.nick.val
    ELSE IF rc.nick.some THEN rc.nick.val
    ELSE IF cfg.jid.node.some THEN cfg.jid.node.val
    ELSE DefaultNick

\* Lines 138-145: the nick of a configured room.
room_nick(rc, cfg) ==
    IF rc.nick.some THEN rc.nick.val
    ELSE IF cfg.nick.some THEN cfg.nick.val
    ELSE IF cfg.jid.node.some THEN cfg.jid.node.val
    ELSE DefaultNick

SeqContains(s, x) == \E i \in 1..Len(s) : s[i] = x

\* The push of lines 149-151 made only for an empty list.
room_chain_indices_if_empty(rc) ==
    IF rc.chain_indices.some /\ Len(rc.chain_indices.val) > 0
    THEN rc.chain_indices.val
    ELSE <<0>>

\* Lines 148-152: the chain indices of a configured room.
room_chain_indices(rc) ==
    LET chain_indices == IF rc.chain_indices.some THEN rc.chain_indices.val ELSE <<0>>
    IN  IF ~SeqContains(chain_indices, 0)
        THEN Append(chain_indices, 0)
        ELSE chain_indices

\* The first element taken for the maximum.
SeqFirst(s) == s[1]

\* Iterator::max over a non-empty Vec<usize>
SeqMax(s) == CHOOSE m \in {s[i] : i \in 1..Len(s)} : \A i \in 1..Len(s) : s[i] <= m

\* HashMap::insert
map_insert(map, key, value) ==
    [k \in DOMAIN map \cup {key} |-> IF k = key THEN value ELSE map[k]]

\* The loop of lines 137-170 over cfg.rooms from its i-th entry on: the
\* registry and max_idx, or died when a room jid has no local part.
RECURSIVE build_rooms(_, _, _, _, _)
build_rooms(cfg, i, map, max_idx, t) ==
    IF i > Len(cfg.rooms) THEN [died |-> FALSE, rooms |-> map, max_idx |-> max_idx]
    ELSE LET rc == cfg.rooms[i]
             nick == room_nick(rc, cfg)
             jid == with_resource(rc.room, nick)
             chain_indices == room_chain_indices(rc)
             max == SeqMax(chain_indices)
             new_max == IF max > max_idx THEN max ELSE max_idx
         IN  IF ~jid.node.some
             THEN [died |-> TRUE, rooms |-> map, max_idx |-> new_max]
             ELSE build_rooms(cfg, i + 1,
                      map_insert(map, <<jid.node.val, jid.domain>>,
                                 NewRoom(nick, jid, chain_indices, t)),
                      new_max, t)

\* ------------------------------------------------------------ the database
\* A row of table msg.
Row(node, domain, nick, msg) == [node |-> node, domain |-> domain, nick |-> nick, msg |-> msg]

\* The loop without the INSERT of line 259.
insert_msg_dropped(db, node, domain, nick, msg) == db

\* The new row put before the rows of earlier messages.
insert_msg_first(db, node, domain, nick, msg) == <<Row(node, domain, nick, msg)>> \o db

\* Line 259: INSERT INTO msg (node, domain, nick, msg)
insert_msg(db, node, domain, nick, msg) == Append(db, Row(node, domain, nick, msg))

\* for x in &room.chain_indices { brain[*x].ingest(body) }
RECURSIVE ingest_all(_, _, _)
ingest_all(brain, chain_indices, body) ==
    IF Len(chain_indices) = 0 THEN brain
    ELSE ingest_all([brain EXCEPT ![Head(chain_indices)] = ingest(@, body)],
                    Tail(chain_indices), body)

\* The replay without the else branch of lines 198-200.
replay_row_known_only(brain, rooms, row) ==
    IF <<row.node, row.domain>> \in DOMAIN rooms
    THEN ingest_all(brain, rooms[<<row.node, row.domain>>].chain_indices, row.msg)
    ELSE brain

\* Lines 193-200: one row of the replay.
replay_row(brain, rooms, row) ==
    IF <<row.node, row.domain>> \in DOMAIN rooms
    THEN ingest_all(brain, rooms[<<row.node, row.domain>>].chain_indices, row.msg)
    ELSE [brain EXCEPT ![0] = ingest(@, row.msg)]

\* The rows visited from the last to the first.
RECURSIVE replay_reversed(_, _, _)
replay_reversed(brain, rooms, rows) ==
    IF Len(rows) = 0 THEN brain
    ELSE replay_row(replay_reversed(brain, rooms, Tail(rows)), rooms, Head(rows))

\* Lines 185-201: the rows of SELECT node, domain, msg from msg, in order.
RECURSIVE replay(_, _, _)
replay(brain, rooms, rows) ==
    IF Len(rows) = 0 THEN brain
    ELSE replay(replay_row(brain, rooms, Head(rows)), rooms, Tail(rows))

\* vec![Brain::new(); max_idx], with one brain at least.
new_brains_short(max_idx) ==
    [i \in 0..(IF max_idx > 0 THEN max_idx - 1 ELSE 0) |-> NewBrain]

\* vec![Brain::new(); max_idx + 1]
new_brains(max_idx) == [i \in 0..max_idx |-> NewBrain]

\* ----------------------------------------------------------- the event loop
\* What one iteration of the loop did: how the event was classified, the
\* ambient category that fired, the numbers chance drew, the response the
\* room computed and how the iteration ended ("ok", or the call whose error main returns with ?).
Res(class, fired, draws, response, status) ==
    [class |-> class, fired |-> fired, draws |-> draws, response |-> response,
     status |-> status]
NoRes == Res("none", "none", <<>>, NoneReply, "ok")

\* The state an iteration leaves, the stanzas it sent and whether the loop
\* goes on.
Outcome(rooms, brain, db, sent, res) ==
    [rooms |-> rooms, brain |-> brain, db |-> db, sent |-> sent, res |-> res,
     alive |-> res.status = "ok"]

\* The loop without the test of line 229.
self_echo_unchecked(resource, nick) == FALSE

\* Line 229: the sender's resource is the room's own nick.
self_echo(resource, nick) == resource = nick

\* Line 234: the body is addressed to the bot.
is_directed(body, nick) == starts_with(body, nick)

\* Lines 235-236: the body of a directed message without nick and separators.
strip_nick(body, nick) ==
    trim_start_chars(trim_start_matches(body, nick), Separators)

\* A lookup that, for an unknown node, settles for a room of the same domain.
lookup_by_domain(rooms, node, domain) ==
    IF <<node, domain>> \in DOMAIN rooms THEN [some |-> TRUE, val |-> <<node, domain>>]
    ELSE IF \E k \in DOMAIN rooms : k[2] = domain
    THEN [some |-> TRUE, val |-> CHOOSE k \in DOMAIN rooms : k[2] = domain]
    ELSE [some |-> FALSE, val |-> <<"", "">>]

\* Lines 225-226: rooms.get_mut(&(node, domain)), the key of the room found.
NoneKey == NoneOf(<<"", "">>)
lookup(rooms, node, domain) ==
    IF <<node, domain>> \in DOMAIN rooms THEN Some(<<node, domain>>) ELSE NoneKey

\* The clocks the handler set copied to every room.
put_room_all(rooms, key, room) ==
    [k \in DOMAIN rooms |->
        [rooms[k] EXCEPT !.last_sent_jabber = room.last_sent_jabber,
                         !.last_sent_dad = room.last_sent_dad,
                         !.last_sent_random = room.last_sent_random]]

\* The room taken out of the map to be handled, and not put back.
put_room_removed(rooms, key, room) == [k \in DOMAIN rooms \ {key} |-> rooms[k]]

\* Lines 225-226: the handlers work on the &mut Room of rooms.get_mut(..),
\* so what they write is in the map.
put_room(rooms, key, room) == [rooms EXCEPT ![key] = room]

\* The loop going to the next event when the handler has nothing to say.
deliver_reply_only(rooms, brain, db, from, body, key, class, h) ==
    LET rooms1 == [rooms EXCEPT ![key] = h.room]
        response == [some |-> h.result.some, val |-> h.result.val]
        reply == make_reply(BareJid(from.node, from.domain), response.val)
    IN  IF ~h.result.ok
        THEN {Outcome(rooms1, brain, db, {},
                      Res(class, h.fired, h.draws, NoneReply, "generate_failed"))}
        ELSE IF ~response.some
        THEN {Outcome(rooms1, brain, db, {},
                      Res(class, h.fired, h.draws, response, "ok"))}
        ELSE UNION {
            IF ~send_ok
            THEN {Outcome(rooms1, brain, db, {},
                          Res(class, h.fired, h.draws, response, "send_failed"))}
            ELSE {IF ~insert_ok
                  THEN Outcome(rooms1, brain, db, {reply},
                               Res(class, h.fired, h.draws, response, "insert_failed"))
                  ELSE Outcome(rooms1,
                               ingest_all(brain, rooms[key].chain_indices, body),
                               insert_msg(db, from.node.val, from.domain,
                                          from.resource.val, body),
                               {reply},
                               Res(class, h.fired, h.draws, response, "ok"))
                  : insert_ok \in IoResults}
            : send_ok \in IoResults}

\* Lines 248-262, once the room at key returned h: the reply, the INSERT and
\* the ingests, each ? ending main on an error.
deliver(rooms, brain, db, from, body, key, class, h) ==
    LET rooms1 == put_room(rooms, key, h.room)
        response == [some |-> h.result.some, val |-> h.result.val]
        reply == make_reply(BareJid(from.node, from.domain), response.val)
        sends == IF response.some THEN IoResults ELSE {TRUE}
        sent == IF response.some THEN {reply} ELSE {}
    IN  IF ~h.result.ok
        THEN {Outcome(rooms1, brain, db, {},
                      Res(class, h.fired, h.draws, NoneReply, "generate_failed"))}
        ELSE UNION {
            IF ~send_ok
            THEN {Outcome(rooms1, brain, db, {},
                          Res(class, h.fired, h.draws, response, "send_failed"))}
            ELSE {IF ~insert_ok
                  THEN Outcome(rooms1, brain, db, sent,
                               Res(class, h.fired, h.draws, response, "insert_failed"))
                  ELSE Outcome(rooms1,
                               ingest_all(brain, rooms[key].chain_indices, body),
                               insert_msg(db, from.node.val, from.domain,
                                          from.resource.val, body),
                               sent,
                               Res(class, h.fired, h.draws, response, "ok"))
                  : insert_ok \in IoResults}
            : send_ok \in sends}

\* The loop without the test of line 218.
is_error_unchecked(m) == FALSE

\* Line 218: message.type_ is MessageType::Error.
is_error(m) == m.type = "error"

\* Lines 212-272: one stanza that converts to a Message, handled at Instant t.
on_message(rooms, brain, db, m, t) ==
    LET ignored == {Outcome(rooms, brain, db, {},
                            Res("ignored", "none", <<>>, NoneReply, "ok"))}
    IN  IF ~(m.from.some /\ m.body.some) THEN ignored
        ELSE IF is_error(m) THEN ignored
        ELSE IF ~(m.from.val.resource.some /\ m.from.val.node.some) THEN ignored
        ELSE LET from == m.from.val
                 found == lookup(rooms, from.node.val, from.domain)
             IN  IF ~found.some THEN ignored
                 ELSE LET room == rooms[found.val]
                          nick == room.nick
                          body == m.body.val
                          b == BrainRef(brain, room.chain_indices[1])
                      IN  IF self_echo(from.resource.val, nick)
                          THEN {Outcome(rooms, brain, db, {},
                                        Res("self_echo", "none", <<>>, NoneReply, "ok"))}
                          ELSE IF is_directed(body, nick)
                          THEN UNION {deliver(rooms, brain, db, from, body, found.val,
                                              "directed", h)
                                      : h \in directed_message(room, strip_nick(body, nick),
                                                               b, t)}
                          ELSE UNION {deliver(rooms, brain, db, from, body, found.val,
                                              "ambient", h)
                                      : h \in non_directed_message(room, body, b, t)}

\* Lines 207-211: the joins of an online event.  The rooms are visited in
\* the HashMap's order and the first send that fails ends main: the stanzas
\* sent are all joins, or those of any set of rooms that is not all of them.
on_online(rooms) ==
    LET joins(keys) == {make_join(rooms[k].jid) : k \in keys}
    IN  {[sent |-> joins(keys),
          res |-> Res("online", "none", <<>>, NoneReply,
                      IF keys = DOMAIN rooms THEN "ok" ELSE "send_failed")]
         : keys \in SUBSET DOMAIN rooms}

\* ------------------------------------------------------------ the scenario
\* Texts of the scenario: nicks and message bodies.
TAsh == <<"a", "s", "h">>
TAlice == <<"a", "l", "i", "c", "e">>
TAshRepo == <<"a", "s", "h", ":", " ", "r", "e", "p", "o">>
TAshWords == <<"a", "s", "h", ",", " ", "w", "o", "r", "d", "s">>
TAshJabber == <<"a", "s", "h", ":", " ", "j", "a", "b", "b", "e", "r">>
TAshDad == <<"a", "s", "h", " ", "d", "a", "d">>
TAshCode == <<"a", "s", "h", ":", " ", "c", "o", "d", "e">>
TAshHi == <<"a", "s", "h", ":", " ", "h", "i">>
TJabberDad == <<"j", "a", "b", "b", "e", "r", " ", "d", "a", "d">>
THi == <<"h", "i">>
TUpJabber == <<"J", "A", "B", "B", "E", "R">>

\* Config and RoomConfig
Config(jid, nick, rooms) == [jid |-> jid, nick |-> nick, rooms |-> rooms]
RoomConfig(room, chain_indices, nick) ==
    [room |-> room, chain_indices |-> chain_indices, nick |-> nick]

\* The bot is ash@example.org; room chat has no chain_indices and room dev
\* has chain_indices = [1]; neither sets a nick.
MainConfig ==
    Config(BareJid(Some(TAsh), "example.org"), NoneText,
           <<RoomConfig(BareJid(Some("chat"), "example.org"), NoneText, NoneText),
             RoomConfig(BareJid(Some("dev"), "example.org"), Some(<<1>>), NoneText)>>)

\* Events of the client's stream.
Event(kind, type, from, body) == [kind |-> kind, type |-> type, from |-> from, body |-> body]
NoEvent == Event("none", "", NoneJid, NoneText)
OnlineEvent == Event("online", "", NoneJid, NoneText)
OtherEvent == Event("other", "", NoneJid, NoneText)
GroupchatFrom(node, resource, body) ==
    Event("message", "groupchat",
          Some(Jid(Some(node), "example.org", Some(resource))), Some(body))

\* Messages the loop ignores at lines 216-224: of type error, without a
\* body, without a sender, from a bare jid and from a jid without node.
Malformed ==
    {Event("message", "error",
           Some(Jid(Some("chat"), "example.org", Some(TAlice))), Some(THi)),
     Event("message", "groupchat",
           Some(Jid(Some("chat"), "example.org", Some(TAlice))), NoneText),
     Event("message", "groupchat", NoneJid, Some(THi)),
     Event("message", "groupchat", Some(BareJid(Some("chat"), "example.org")), Some(THi)),
     Event("message", "groupchat",
           Some(Jid(NoneStr, "example.org", Some(TAlice))), Some(THi))}

\* The messages of the scenario: alice in room chat, alice in room dev, the
\* bot's own echo in room chat, alice in a room that is not configured, and
\* the malformed ones.
Messages ==
    {GroupchatFrom("chat", TAlice, b) :
        b \in {TAshRepo, TAshWords, TAshJabber, TAshDad, TAshCode, TAshHi,
               TJabberDad, TUpJabber, THi}}
    \cup {GroupchatFrom("dev", TAlice, b) : b \in {TAshRepo, TJabberDad}}
    \cup {GroupchatFrom("chat", TAsh, b) : b \in {TAshRepo, THi}}
    \cup {GroupchatFrom("other", TAlice, b) : b \in {TAshRepo, THi}}
    \cup Malformed

\* ------------------------------------------------------------------ state
VARIABLES
    cfg,      \* the parsed configuration file
    db,       \* the rows of table msg, in insertion order
    rooms,    \* HashMap<(String, String), Room>
    max_idx,  \* the largest chain index of the configuration
    brain,    \* Vec<Brain>, indexed from 0
    now,      \* Instant::now(), seconds since main built the registry
    pc,       \* where main is: "start", "replay", "running", or ended:
              \* "died" (die!) or "failed" (main returned an Err)
    nev,      \* events taken from the client so far
    ev,       \* the event of the last iteration of the loop
    res,      \* what that iteration did
    sent      \* the stanzas it handed to the client

vars == <<cfg, db, rooms, max_idx, brain, now, pc, nev, ev, res, sent>>

InitWith(cfgs, dbs) ==
    /\ cfg \in cfgs
    /\ db \in dbs
    /\ rooms = <<>>
    /\ max_idx = 0
    /\ brain = <<>>
    /\ now = 0
    /\ pc = "start"
    /\ nev = 0
    /\ ev = NoEvent
    /\ res = NoRes
    /\ sent = {}

Init == InitWith({MainConfig}, {<<>>})

\* The registry built from the rooms that have a local part, whatever the
\* configuration.
BuildRegistry_lenient ==
    /\ pc = "start"
    /\ LET built == build_rooms(cfg, 1, <<>>, 0, now)
       IN  /\ pc' = "replay"
           /\ rooms' = built.rooms
           /\ max_idx' = built.max_idx
    /\ UNCHANGED <<cfg, db, brain, now, nev, ev, res, sent>>

\* Lines 129-170: the registry, or die!.
BuildRegistry ==
    /\ pc = "start"
    /\ LET built == build_rooms(cfg, 1, <<>>, 0, now)
       IN  IF Len(cfg.rooms) = 0
           THEN pc' = "died" /\ UNCHANGED <<rooms, max_idx>>
           ELSE /\ pc' = IF built.died THEN "died" ELSE "replay"
                /\ rooms' = built.rooms
                /\ max_idx' = built.max_idx
    /\ UNCHANGED <<cfg, db, brain, now, nev, ev, res, sent>>

\* The client is built and polled before the rows are replayed.
ReplayHistory_skipped ==
    /\ pc = "replay"
    /\ brain' = new_brains(max_idx)
    /\ pc' = "running"
    /\ UNCHANGED <<cfg, db, rooms, max_idx, now, nev, ev, res, sent>>

\* Lines 172-204: the database is opened and its rows are replayed into
\* fresh brains; an error of rusqlite ends main.
ReplayHistory ==
    /\ pc = "replay"
    /\ \E db_ok \in IoResults :
        IF db_ok
        THEN /\ brain' = replay(new_brains(max_idx), rooms, db)
             /\ pc' = "running"
        ELSE /\ pc' = "failed"
             /\ UNCHANGED brain
    /\ UNCHANGED <<cfg, db, rooms, max_idx, now, nev, ev, res, sent>>

\* The monotonic clock advances.
Tick ==
    /\ pc = "running"
    /\ now + TimeStep <= MaxTime
    /\ now' = now + TimeStep
    /\ UNCHANGED <<cfg, db, rooms, max_idx, brain, pc, nev, ev, res, sent>>

\* Lines 207-211: event.is_online()
OnOnline ==
    /\ pc = "running"
    /\ nev < MaxEvents
    /\ \E o \in on_online(rooms) :
        /\ sent' = o.sent
        /\ res' = o.res
        /\ pc' = IF o.res.status = "ok" THEN "running" ELSE "failed"
    /\ ev' = OnlineEvent
    /\ nev' = nev + 1
    /\ UNCHANGED <<cfg, db, rooms, max_idx, brain, now>>

\* Lines 212-273: a stanza that is a Message
OnMessage(m) ==
    /\ pc = "running"
    /\ nev < MaxEvents
    /\ \E o \in on_message(rooms, brain, db, m, now) :
        /\ rooms' = o.rooms
        /\ brain' = o.brain
        /\ db' = o.db
        /\ sent' = o.sent
        /\ res' = o.res
        /\ pc' = IF o.alive THEN "running" ELSE "failed"
    /\ ev' = m
    /\ nev' = nev + 1
    /\ UNCHANGED <<cfg, max_idx, now>>

\* Lines 212-214: any other event, or a stanza that is no Message
OnOther ==
    /\ pc = "running"
    /\ nev < MaxEvents
    /\ ev' = OtherEvent
    /\ res' = Res("ignored", "none", <<>>, NoneReply, "ok")
    /\ sent' = {}
    /\ nev' = nev + 1
    /\ UNCHANGED <<cfg, db, rooms, max_idx, brain, now, pc>>

Next ==
    \/ BuildRegistry
    \/ ReplayHistory
    \/ Tick
    \/ OnOnline
    \/ \E m \in Messages : OnMessage(m)
    \/ OnOther

Spec == Init /\ [][Next]_vars

\* ------------------------------------------- starting on an existing table
\* Configurations of two rooms with the given chain_indices.
TwoRooms(chat_chains, dev_chains) ==
    Config(BareJid(Some(TAsh), "example.org"), NoneText,
           <<RoomConfig(BareJid(Some("chat"), "example.org"), chat_chains, NoneText),
             RoomConfig(BareJid(Some("dev"), "example.org"), dev_chains, NoneText)>>)

\* chain_indices = [1] and [2]; an empty list and a list that holds 0.
SplitConfig == TwoRooms(Some(<<1>>), Some(<<2>>))
ZeroConfig == TwoRooms(Some(<<>>), Some(<<0, 2>>))
\* No room at all; a room whose jid has no local part after a good one.
EmptyConfig == Config(BareJid(Some(TAsh), "example.org"), NoneText, <<>>)
NoNodeConfig ==
    Config(BareJid(Some(TAsh), "example.org"), NoneText,
           <<RoomConfig(BareJid(Some("chat"), "example.org"), NoneText, NoneText),
             RoomConfig(BareJid(NoneStr, "example.org"), Some(<<1>>), NoneText)>>)
\* A list that names index 1 twice.
DupConfig == TwoRooms(NoneText, Some(<<1, 1>>))
StartupConfigs ==
    {MainConfig, SplitConfig, ZeroConfig, DupConfig, EmptyConfig, NoNodeConfig}

\* Rows an earlier run stored: from room chat, from room dev and from a room
\* that is not configured any more.
HistoryRows ==
    {Row("chat", "example.org", TAlice, THi),
     Row("dev", "example.org", TAlice, TJabberDad),
     Row("other", "example.org", TAlice, TAshRepo)}

\* The message tables of up to MaxHistory rows.
Histories == UNION {[1..n -> HistoryRows] : n \in 0..MaxHistory}

\* Live messages after the replay: alice in rooms chat and dev.
StartupMessages ==
    {GroupchatFrom("chat", TAlice, TAshWords),
     GroupchatFrom("dev", TAlice, TAshWords),
     GroupchatFrom("dev", TAlice, TAshHi),
     GroupchatFrom("dev", TAlice, THi)}

StartupInit == InitWith(StartupConfigs, Histories)

StartupNext ==
    \/ BuildRegistry
    \/ ReplayHistory
    \/ OnOnline
    \/ \E m \in StartupMessages : OnMessage(m)

StartupSpec == StartupInit /\ [][StartupNext]_vars

\* ------------------------------------------------- ways to address the bot
\* "Ash: repo", "ashtray is here", "ashash: repo", "ash: ash repo",
\* "ash: repo " (with a trailing space), "ash: REPO" and "ash: Hi".
TCapAshRepo == <<"A", "s", "h", ":", " ", "r", "e", "p", "o">>
TAshtray == <<"a", "s", "h", "t", "r", "a", "y", " ", "i", "s", " ", "h", "e", "r", "e">>
TAshAshRepo == <<"a", "s", "h", "a", "s", "h", ":", " ", "r", "e", "p", "o">>
TAshAshSpRepo == <<"a", "s", "h", ":", " ", "a", "s", "h", " ", "r", "e", "p", "o">>
TAshRepoSp == <<"a", "s", "h", ":", " ", "r", "e", "p", "o", " ">>
TAshUpRepo == <<"a", "s", "h", ":", " ", "R", "E", "P", "O">>
TAshUpHi == <<"a", "s", "h", ":", " ", "H", "i">>
\* "ash: my dad uses jabber"
TAshDadJabber == <<"a", "s", "h", ":", " ", "m", "y", " ", "d", "a", "d", " ", "u", "s", "e", "s", " ", "j", "a", "b", "b", "e", "r">>

\* Messages of alice in room chat (nick ash) that begin with the nick, in
\* some letter case, up to the bare nick.
AddressMessages ==
    {GroupchatFrom("chat", TAlice, b) :
        b \in {TAsh, TAshRepo, TAshCode, TAshJabber, TAshDad, TAshWords, TAshHi,
               TCapAshRepo, TAshtray, TAshAshRepo, TAshAshSpRepo, TAshRepoSp,
               TAshUpRepo, TAshUpHi, TAshDadJabber}}

AddressNext ==
    \/ BuildRegistry
    \/ ReplayHistory
    \/ \E m \in AddressMessages : OnMessage(m)

AddressSpec == Init /\ [][AddressNext]_vars

\* ----------------------------------------------------- where the nick is set
TBob == <<"b", "o", "b">>
TAl == <<"a", "l">>
TBot == <<"b", "o", "t">>
TBobRepo == <<"b", "o", "b", ":", " ", "r", "e", "p", "o">>
TAlRepo == <<"a", "l", ":", " ", "r", "e", "p", "o">>
TBotRepo == <<"b", "o", "t", ":", " ", "r", "e", "p", "o">>

\* The bot is bot@example.org with the bot-wide nick al; room chat sets the
\* nick bob, room dev sets none.
RoomNickConfig ==
    Config(BareJid(Some(TBot), "example.org"), Some(TAl),
           <<RoomConfig(BareJid(Some("chat"), "example.org"), NoneText, Some(TBob)),
             RoomConfig(BareJid(Some("dev"), "example.org"), NoneText, NoneText)>>)
\* No bot-wide nick; room chat sets none, room dev sets bob.
LocalPartConfig ==
    Config(BareJid(Some(TBot), "example.org"), NoneText,
           <<RoomConfig(BareJid(Some("chat"), "example.org"), NoneText, NoneText),
             RoomConfig(BareJid(Some("dev"), "example.org"), NoneText, Some(TBob))>>)
\* The bot's jid is a domain, and no nick is set anywhere.
NoNickConfig ==
    Config(BareJid(NoneText, "example.org"), NoneText,
           <<RoomConfig(BareJid(Some("chat"), "example.org"), NoneText, NoneText)>>)
NickConfigs == {RoomNickConfig, LocalPartConfig, NoNickConfig}

\* Messages of occupants named like the candidate nicks, and messages of
\* alice that begin with a candidate nick.
NickMessages ==
    {GroupchatFrom("chat", n, THi) : n \in {TBob, TAl, TBot, TAsh}}
    \cup {GroupchatFrom("chat", TAlice, b) : b \in {TBobRepo, TAlRepo, TBotRepo, TAshRepo}}
    \cup {GroupchatFrom("dev", n, THi) : n \in {TBob, TAl}}
    \cup {GroupchatFrom("dev", TAlice, b) : b \in {TBobRepo, TAlRepo}}

NickInit == InitWith(NickConfigs, {<<>>})

NickNext ==
    \/ BuildRegistry
    \/ ReplayHistory
    \/ OnOnline
    \/ \E m \in NickMessages : OnMessage(m)

NickSpec == NickInit /\ [][NickNext]_vars

\* ===================================================================
\* Properties
\* ===================================================================
\* A step that is one iteration of the event loop; ev', res' and sent' then
\* describe the event it handled.
Iteration == nev' = nev + 1

\* The event is a chat message with a sender of the form node@domain/resource.
FromOccupant(e) ==
    /\ e.kind = "message"
    /\ e.from.some
    /\ e.from.val.node.some
    /\ e.from.val.resource.some

RoomKey(e) == <<e.from.val.node.val, e.from.val.domain>>

\* ... whose room is registered
InRegistered(e) == FromOccupant(e) /\ RoomKey(e) \in DOMAIN rooms

\* ... and whose sender resource is that room's nick.
IsSelfEcho(e) == InRegistered(e) /\ e.from.val.resource.val = rooms[RoomKey(e)].nick

\* An accepted message: registered room, not an error, sender with local
\* part and resource, a body, not a self-echo.
IsAccepted(e) ==
    /\ InRegistered(e)
    /\ e.type # "error"
    /\ e.body.some
    /\ e.from.val.resource.val # rooms[RoomKey(e)].nick

\* The row an accepted message is stored as.
RowOf(e) ==
    [node |-> e.from.val.node.val, domain |-> e.from.val.domain,
     nick |-> e.from.val.resource.val, msg |-> e.body.val]

\* The pool after body was ingested once into each of the chains.
Ingested(pool, chains, body) ==
    [i \in DOMAIN pool |-> IF i \in chains THEN Append(pool[i], body) ELSE pool[i]]

ChainsOf(room) == {room.chain_indices[i] : i \in 1..Len(room.chain_indices)}

\* The ambient categories, their cooldown clocks and minimum intervals.
Categories == {"jabber", "dad", "random"}
LastSent(room, c) ==
    CASE c = "jabber" -> room.last_sent_jabber
      [] c = "dad" -> room.last_sent_dad
      [] OTHER -> room.last_sent_random
MinSeconds(c) ==
    CASE c = "jabber" -> JabberMinSeconds
      [] c = "dad" -> DadMinSeconds
      [] OTHER -> RandomMinSeconds

\* The cooldown clocks a step changes.
ChangedClocks ==
    {kc \in (DOMAIN rooms) \X Categories :
        LastSent(rooms'[kc[1]], kc[2]) # LastSent(rooms[kc[1]], kc[2])}

\* The group-chat stanza that carries reply r to the room of event e.
ReplyTo(e, r) ==
    [kind |-> "message", type |-> "groupchat",
     to |-> [node |-> e.from.val.node, domain |-> e.from.val.domain,
             resource |-> NoneText],
     body |-> r, muc |-> FALSE, maxstanzas |-> 0]

\* C1: handling a message whose sender resource is the nick of its
\* registered room sends nothing, appends no row, ingests nothing into any
\* chain and changes no cooldown clock.
C1_SelfEchoSuppressed ==
    [][(Iteration /\ IsSelfEcho(ev'))
        => (sent' = {} /\ db' = db /\ brain' = brain /\ rooms' = rooms)]_vars

\* A self-echo was handled after another message had been stored.
C1_Witness ==
    /\ IsSelfEcho(ev)
    /\ res.class = "self_echo"
    /\ Len(db) = 1
    /\ sent = {}

\* C2: every accepted message is appended to the table exactly once, as
\* (node, domain, sender resource, original body), whether or not a reply
\* was produced (stated for the iterations in which neither the generator
\* nor the INSERT itself returned an error).
C2_AcceptedIsStored ==
    [][(Iteration /\ IsAccepted(ev')
            /\ res'.status \notin {"generate_failed", "insert_failed"})
        => db' = Append(db, RowOf(ev'))]_vars

\* C3: every accepted message is ingested into every chain of its room,
\* whether or not a reply was produced (stated for the iterations in which
\* the generator returned no error).
C3_AcceptedIsIngested ==
    [][(Iteration /\ IsAccepted(ev') /\ res'.status # "generate_failed")
        => brain' = Ingested(brain, ChainsOf(rooms[RoomKey(ev')]), ev'.body.val)]_vars

\* C4: when sending the reply to an accepted message fails, the message is
\* still stored and ingested into every chain of its room.
C4_StoredDespiteSendFailure ==
    [][(Iteration /\ IsAccepted(ev') /\ res'.status = "send_failed")
        => /\ db' = Append(db, RowOf(ev'))
           /\ brain' = Ingested(brain, ChainsOf(rooms[RoomKey(ev')]), ev'.body.val)]_vars

\* C5: a failed send (of a reply or a join) or a failed INSERT does not end
\* the loop.
C5_LoopSurvivesFailure ==
    res.status \in {"send_failed", "insert_failed"} => pc = "running"

\* C6: a category fires in a room only when at least its minimum interval
\* has passed since the Instant in its clock, the clock then holds the
\* Instant of that fire, and a clock changes at no other time: so after a
\* fire at t the category cannot fire again in that room before
\* t + its minimum interval.
C6_CooldownGating ==
    [][(Iteration /\ IsAccepted(ev'))
        => \A c \in Categories :
            LET before == LastSent(rooms[RoomKey(ev')], c)
                after == LastSent(rooms'[RoomKey(ev')], c)
            IN  /\ res'.fired = c => (now - before >= MinSeconds(c) /\ after = now)
                /\ res'.fired # c => after = before]_vars

\* An ambient message that contains "jabber" arrived less than 120 s after
\* the jabber category had fired in its room, and that category did not fire.
C6_Witness ==
    /\ IsAccepted(ev)
    /\ res.class = "ambient"
    /\ ev.body.val = TJabberDad
    /\ rooms[RoomKey(ev)].last_sent_jabber >= 0
    /\ now - rooms[RoomKey(ev)].last_sent_jabber < JabberMinSeconds
    /\ res.fired # "jabber"

\* C7: handling one message changes at most one cooldown clock, that of
\* the category that fired, in the message's room, to the current Instant;
\* when none fired no clock changes; and at most one stanza, a reply to
\* that room, is sent.
C7_AtMostOneFires ==
    [][(Iteration /\ ev'.kind = "message")
        => /\ Cardinality(ChangedClocks) <= 1
           /\ \A kc \in ChangedClocks :
                /\ IsAccepted(ev')
                /\ kc[1] = RoomKey(ev')
                /\ kc[2] = res'.fired
                /\ LastSent(rooms'[kc[1]], kc[2]) = now
           /\ Cardinality(sent') <= 1
           /\ \A st \in sent' : st = ReplyTo(ev', res'.response.val)]_vars

\* A message matching two categories made the dad category fire: its clock
\* is the only one set and one joke was sent.
C7_Witness ==
    /\ IsAccepted(ev)
    /\ ev.body.val = TJabberDad
    /\ res.fired = "dad"
    /\ rooms[RoomKey(ev)].last_sent_dad = now
    /\ rooms[RoomKey(ev)].last_sent_jabber < now
    /\ rooms[RoomKey(ev)].last_sent_random < now
    /\ Cardinality(sent) = 1

\* An accepted ambient message whose body contains "jabber" and "dad".
MatchesBoth(e) == IsAccepted(e) /\ e.body.val = TJabberDad

\* C8 as stated: for an ambient body that contains both "jabber" and "dad"
\* only the clock of jabber updates; that of dad does not change (stated
\* for the iterations that end without an error).
C8_OnlyJabberUpdates ==
    [][(Iteration /\ MatchesBoth(ev') /\ res'.status = "ok")
        => rooms'[RoomKey(ev')].last_sent_dad = rooms[RoomKey(ev')].last_sent_dad]_vars

\* C8 amended: for such a body jabber is tried first: when its interval has
\* passed it fires exactly if the first number drawn is below its pct, and
\* then no other clock changes; the clock of dad changes only when dad
\* fired, which needs that jabber did not fire (interval not passed, or its
\* draw not below its pct) and leaves the clock of jabber unchanged.
C8_PriorityOrder ==
    [][(Iteration /\ MatchesBoth(ev'))
        => LET old == rooms[RoomKey(ev')]
               new == rooms'[RoomKey(ev')]
               open == now - old.last_sent_jabber >= JabberMinSeconds
           IN  /\ open => /\ Len(res'.draws) >= 1
                          /\ res'.fired = "jabber" <=> res'.draws[1] < JabberPct
               /\ ~open => res'.fired # "jabber"
               /\ res'.fired = "jabber"
                    => /\ new.last_sent_dad = old.last_sent_dad
                       /\ new.last_sent_random = old.last_sent_random
               /\ new.last_sent_dad # old.last_sent_dad
                    => /\ res'.fired = "dad"
                       /\ new.last_sent_jabber = old.last_sent_jabber
                       /\ (~open \/ res'.draws[1] >= JabberPct)]_vars

\* jabber fired for a body containing both patterns while dad could have
\* fired too: the clock of dad still holds its initial Instant.
C8_Witness ==
    /\ MatchesBoth(ev)
    /\ res.fired = "jabber"
    /\ rooms[RoomKey(ev)].last_sent_jabber = now
    /\ now - rooms[RoomKey(ev)].last_sent_dad >= DadMinSeconds

\* The bodies that address the nick ash with a keyword command.
KeywordCommands == {TAshJabber, TAshDad, TAshRepo, TAshCode, TAshWords}

\* C9: a directed keyword command gets its response whatever the cooldown
\* clocks of its room hold, the response is sent unless the send fails,
\* and no clock changes.
C9_DirectedBypassesCooldown ==
    [][(Iteration /\ IsAccepted(ev') /\ ev'.body.val \in KeywordCommands)
        => /\ res'.class = "directed"
           /\ res'.response.some
           /\ res'.status # "send_failed" => sent' = {ReplyTo(ev', res'.response.val)}
           /\ rooms' = rooms]_vars

\* The same command was sent twice to one room at the same Instant and was
\* answered the second time as well.
C9_Witness ==
    /\ Len(db) = 2
    /\ db[1] = db[2]
    /\ db[2].msg = TAshJabber
    /\ ev.body.val = TAshJabber
    /\ now = 0
    /\ sent = {ReplyTo(ev, XMPP_NOT_JABBER)}

\* C10: a message from a room that is not in the registry sends nothing,
\* appends no row, ingests nothing (chain 0 included) and changes no clock.
C10_UnknownRoomDropped ==
    [][(Iteration /\ FromOccupant(ev') /\ RoomKey(ev') \notin DOMAIN rooms)
        => (sent' = {} /\ db' = db /\ brain' = brain /\ rooms' = rooms)]_vars

\* A message from an unknown room was handled after one had been stored.
C10_Witness ==
    /\ FromOccupant(ev)
    /\ RoomKey(ev) \notin DOMAIN rooms
    /\ res.class = "ignored"
    /\ Len(db) = 1
    /\ Len(brain[0]) = 1

\* C11: a chat message of type error, or without a sender or a body, or
\* whose sender is not of the form node@domain/resource, is discarded: it
\* sends nothing, appends no row, ingests nothing and changes no clock.
C11_MalformedDiscarded ==
    [][(Iteration /\ ev'.kind = "message"
            /\ (\/ ev'.type = "error"
                \/ ~ev'.from.some
                \/ ~ev'.body.some
                \/ ~ev'.from.val.node.some
                \/ ~ev'.from.val.resource.some))
        => (sent' = {} /\ db' = db /\ brain' = brain /\ rooms' = rooms)]_vars

\* A message of type error from an occupant of a registered room, with a
\* body, was handled after another message had been stored.
C11_Witness ==
    /\ ev.kind = "message"
    /\ ev.type = "error"
    /\ ev.body.some
    /\ InRegistered(ev)
    /\ res.class = "ignored"
    /\ Len(db) = 1
    /\ sent = {}

\* How many times index i occurs in a list of chain indices.
Copies(chain_indices, i) ==
    Cardinality({j \in 1..Len(chain_indices) : chain_indices[j] = i})

\* How many times the replay has to ingest a row into chain i: once per
\* occurrence of i in the list of the row's room when the room is registered,
\* else once into chain 0 and never into another chain.
RowCopies(registry, row, i) ==
    IF <<row.node, row.domain>> \in DOMAIN registry
    THEN Copies(registry[<<row.node, row.domain>>].chain_indices, i)
    ELSE IF i = 0 THEN 1 ELSE 0

Repeat(x, n) == [j \in 1..n |-> x]

\* The bodies of the rows routed to chain i, in the order of the table.
RECURSIVE Routed(_, _, _)
Routed(registry, rows, i) ==
    IF Len(rows) = 0 THEN <<>>
    ELSE Repeat(Head(rows).msg, RowCopies(registry, Head(rows), i))
             \o Routed(registry, Tail(rows), i)

\* C12: when the replay is done, each chain holds, in table order, the body of
\* every row of a registered room that lists the chain, and chain 0 also
\* holds the body of every row of an unregistered room, which no other chain
\* holds; no row is skipped.
C12_ReplayRouting ==
    (pc = "running" /\ nev = 0)
        => \A i \in DOMAIN brain : brain[i] = Routed(rooms, db, i)

\* Rooms chat and dev have chain_indices [1] and [2]; a row of the unknown
\* room and a row of room chat were replayed: chain 0 has both, chain 1 the
\* row of chat, chain 2 nothing.
C12_Witness ==
    /\ pc = "running"
    /\ nev = 0
    /\ cfg = SplitConfig
    /\ db = <<Row("other", "example.org", TAlice, TAshRepo),
              Row("chat", "example.org", TAlice, THi)>>
    /\ brain[0] = <<TAshRepo, THi>>
    /\ brain[1] = <<THi>>
    /\ brain[2] = <<>>

\* The chain list the configuration gives the room node@domain: that of its
\* last entry for that address, with 0 at the end when absent; <<0>> for an
\* address the configuration does not name.
ConfiguredChains(config, node, domain) ==
    LET entries == {j \in 1..Len(config.rooms) :
                        /\ config.rooms[j].room.node = Some(node)
                        /\ config.rooms[j].room.domain = domain}
    IN  IF entries = {} THEN <<0>>
        ELSE LET rc == config.rooms[CHOOSE j \in entries : \A k \in entries : k <= j]
                 listed == IF rc.chain_indices.some THEN rc.chain_indices.val ELSE <<0>>
             IN  IF \E j \in 1..Len(listed) : listed[j] = 0 THEN listed
                 ELSE listed \o <<0>>

\* The sequence chain i ingests from a table under a configuration.
RECURSIVE FromLog(_, _, _)
FromLog(config, rows, i) ==
    IF Len(rows) = 0 THEN <<>>
    ELSE Repeat(Head(rows).msg,
                Copies(ConfiguredChains(config, Head(rows).node, Head(rows).domain), i))
             \o FromLog(config, Tail(rows), i)

\* C13: the replay is a function of the table and the configuration: every
\* run that starts on the same table with the same configuration ends the
\* replay with the same sequence in each chain.
C13_ReplayDeterministic ==
    (pc = "running" /\ nev = 0)
        => \A i \in DOMAIN brain : brain[i] = FromLog(cfg, db, i)

\* A row of room dev, configured with [0, 2], and a row of room chat,
\* configured with the empty list, were replayed.
C13_Witness ==
    /\ pc = "running"
    /\ nev = 0
    /\ cfg = ZeroConfig
    /\ db = <<Row("dev", "example.org", TAlice, TJabberDad),
              Row("chat", "example.org", TAlice, THi)>>
    /\ brain[0] = <<TJabberDad, THi>>
    /\ brain[2] = <<TJabberDad>>

\* C14: between two events, the pool is what the replay would build from the
\* table as it is now, under the same configuration: the bodies ingested at
\* startup and live are, chain by chain and in order, those of the rows.
C14_PoolRebuiltFromLog ==
    (pc = "running" \/ nev > 0) => brain = replay(new_brains(max_idx), rooms, db)

\* Two rows were replayed, then a message of room dev (chains 2 and 0) was
\* stored and ingested live.
C14_Witness ==
    /\ pc = "running"
    /\ nev = 2
    /\ cfg = SplitConfig
    /\ Len(db) = 4
    /\ db[1].node = "other"
    /\ db[2].node = "chat"
    /\ db[4] = Row("dev", "example.org", TAlice, THi)
    /\ brain[2] = <<db[3].msg, THi>>

\* Every row of the table has been ingested: chain 0, which every row is
\* routed to, holds the body of each row and at least as many bodies as the
\* table has rows.
AllRowsIngested ==
    /\ 0 \in DOMAIN brain
    /\ Len(brain[0]) >= Len(db)
    /\ \A j \in 1..Len(db) : SeqContains(brain[0], db[j].msg)

\* C15: the replay runs once, before the session: an event is handled, and
\* a join or a reply is sent, only after every stored row has been ingested,
\* and the replay is never entered again.
C15_ReplayBeforeSession ==
    [][/\ Iteration => (pc = "running" /\ AllRowsIngested)
       /\ sent' # {} => Iteration
       /\ pc \notin {"start", "replay"} => pc' \notin {"start", "replay"}
       /\ (pc = "replay" /\ pc' = "running") => (nev' = 0 /\ sent' = {})]_vars

\* The first event, an online event that sent the joins, was handled after
\* two rows had been replayed into chain 0.
C15_Witness ==
    /\ nev = 1
    /\ ev = OnlineEvent
    /\ sent # {}
    /\ Len(db) = 2
    /\ Len(brain[0]) = 2

\* C16: once the registry is built, the chain list of every room holds 0,
\* whether the configuration gave the room no list, an empty list, a list
\* without 0 or a list with 0.
C16_ChainZeroAlwaysListed ==
    pc \in {"replay", "running", "failed"}
        => /\ DOMAIN rooms # {}
           /\ \A k \in DOMAIN rooms : 0 \in ChainsOf(rooms[k])

\* The registry built from an empty list and from the list [0, 2].
C16_Witness ==
    /\ pc = "replay"
    /\ cfg = ZeroConfig
    /\ rooms[<<"chat", "example.org">>].chain_indices = <<0>>
    /\ rooms[<<"dev", "example.org">>].chain_indices = <<0, 2>>

\* Every chain index a configured room names, and 0.
ConfiguredIndices ==
    {0} \cup UNION {{cfg.rooms[j].chain_indices.val[n] :
                        n \in 1..Len(cfg.rooms[j].chain_indices.val)} :
                    j \in 1..Len(cfg.rooms)}

\* C17: the pool has exactly the indices 0 .. max, where max is the largest
\* chain index of any configured room: its size is 1 + max, index 0 exists.
C17_PoolSize ==
    (pc = "running" \/ nev > 0)
        => /\ DOMAIN brain = 0..max_idx
           /\ max_idx \in ConfiguredIndices
           /\ \A i \in ConfiguredIndices : i <= max_idx
           /\ 0 \in DOMAIN brain

\* The largest index, 2, is listed after 0 by the second room: three brains.
C17_Witness ==
    /\ pc = "running"
    /\ cfg = ZeroConfig
    /\ DOMAIN brain = {0, 1, 2}

\* The first entry of a room's list.
Primary(room) == room.chain_indices[1]

\* The pool after body was ingested once for each entry of the list.
IngestedEach(pool, chain_indices, body) ==
    [i \in DOMAIN pool |-> pool[i] \o Repeat(body, Copies(chain_indices, i))]

\* C18: a room's list is its configured list with 0 at the end when absent;
\* a generated reply, directed or ambient, comes from the first entry of the
\* list and the word count is that of the first entry, while an ingest
\* writes the body to every entry.
C18_PrimaryChain ==
    [][(Iteration /\ IsAccepted(ev'))
        => LET room == rooms[RoomKey(ev')]
               reply == res'.response
           IN  /\ room.chain_indices
                      = ConfiguredChains(cfg, RoomKey(ev')[1], RoomKey(ev')[2])
               /\ (reply.some /\ reply.val.kind = "generated")
                      => reply.val.n = Primary(room)
               /\ (reply.some /\ reply.val.kind = "words")
                      => reply.val.n = get_total_words(brain[Primary(room)])
               /\ brain' # brain
                      => brain' = IngestedEach(brain, room.chain_indices,
                                               ev'.body.val)]_vars

\* Room dev is configured with [2]: an ambient message got a reply generated
\* by chain 2 and was ingested into chains 2 and 0, not into chain 1.
C18_Witness ==
    /\ cfg = SplitConfig
    /\ nev = 1
    /\ ev = GroupchatFrom("dev", TAlice, THi)
    /\ res.class = "ambient"
    /\ res.response = Some(Reply("generated", 2, THi))
    /\ res.status = "ok"
    /\ db = <<Row("other", "example.org", TAlice, TAshRepo),
              Row("dev", "example.org", TAlice, THi)>>
    /\ brain[0] = <<TAshRepo, THi>>
    /\ brain[1] = <<>>
    /\ brain[2] = <<THi>>

\* C19: the reply to the directed command "words" is "I know N words!" with
\* N the word count of the first chain of the room's list as it was before
\* this message is ingested; when that chain has ingested nothing, N is 0.
C19_WordsCountBeforeIngest ==
    [][(Iteration /\ IsAccepted(ev') /\ ev'.body.val = TAshWords)
        => LET before == brain[Primary(rooms[RoomKey(ev')])]
           IN  /\ res'.class = "directed"
               /\ res'.response = Some(words_reply(get_total_words(before)))
               /\ sent' \subseteq {ReplyTo(ev', words_reply(get_total_words(before)))}
               /\ before = <<>> => res'.response.val.n = 0]_vars

\* With nothing ingested, "ash, words" was answered "I know 0 words!", and
\* then stored and ingested.
C19_Witness ==
    /\ nev = 1
    /\ ev = GroupchatFrom("chat", TAlice, TAshWords)
    /\ sent = {ReplyTo(ev, words_reply(0))}
    /\ db = <<Row("chat", "example.org", TAlice, TAshWords)>>
    /\ \A i \in DOMAIN brain : brain[i] \in {<<>>, <<TAshWords>>}
    /\ brain[0] = <<TAshWords>>

\* The join of a room: a presence to the room's jid with the room's nick as
\* resource, with a MUC element that asks for no history stanzas.
JoinOf(room) ==
    [kind |-> "presence", type |-> "none",
     to |-> [node |-> room.jid.node, domain |-> room.jid.domain,
             resource |-> Some(room.nick)],
     body |-> NoReply, muc |-> TRUE, maxstanzas |-> 0]

\* C20: handling an online event sends one join for every registered room,
\* to the room's jid with the room's nick and zero history stanzas, and
\* nothing else: no reply, no row, no ingest, no clock change.
C20_JoinsEveryRoom ==
    [][(Iteration /\ ev'.kind = "online")
        => /\ sent' = {JoinOf(rooms[k]) : k \in DOMAIN rooms}
           /\ db' = db
           /\ brain' = brain
           /\ rooms' = rooms]_vars

\* C21: events are handled one at a time: an event is taken only when the
\* one before it has been handled to its end, the stanzas sent, the row and
\* the ingests of an iteration are those of its own event, and the row goes
\* behind the rows of all earlier messages, so the table is in arrival order.
C21_SequentialInOrder ==
    [][/\ Iteration
            => /\ pc = "running"
               /\ res.status = "ok"
               /\ db' \in {db, Append(db, RowOf(ev'))}
               /\ db' # db => IsAccepted(ev')
               /\ brain' # brain
                    => /\ db' # db
                       /\ brain' = Ingested(brain, ChainsOf(rooms[RoomKey(ev')]),
                                            ev'.body.val)
               /\ ev'.kind = "message"
                    => \A st \in sent' : st = ReplyTo(ev', res'.response.val)
       /\ ~Iteration => (db' = db /\ brain' = brain /\ sent' = sent)
                            \/ (pc = "replay" /\ db' = db /\ sent' = sent)]_vars

\* Two accepted messages of two rooms were handled: the row of the first is
\* before the row of the second, which is the event handled last.
C21_Witness ==
    /\ nev = 2
    /\ Len(db) = 2
    /\ db[1].node = "chat"
    /\ db[1].msg = TAshRepo
    /\ db[2].node = "dev"
    /\ IsAccepted(ev)
    /\ db[2] = RowOf(ev)
    /\ res.status = "ok"

\* C22: with a configuration that has no room, or a room whose jid has no
\* local part, the process ends at startup: the table is never replayed, no
\* stanza is sent and no event is handled.
C22_StartupFailsFast ==
    (\/ Len(cfg.rooms) = 0
     \/ \E j \in 1..Len(cfg.rooms) : ~cfg.rooms[j].room.node.some)
        => /\ pc \in {"start", "died"}
           /\ brain = <<>>
           /\ sent = {}
           /\ nev = 0

\* The process died on the second room, which has no local part, with two
\* rows in the table.
C22_Witness ==
    /\ pc = "died"
    /\ cfg = NoNodeConfig
    /\ Len(db) = 2
    /\ brain = <<>>

\* The handler asked the generator and it had nothing to say: a directed
\* message that is no keyword command, or an ambient one on which the random
\* category fired, with no reply and no error of the generator.
GeneratorSilent(e, r) ==
    /\ IsAccepted(e)
    /\ \/ r.class = "directed" /\ e.body.val \notin KeywordCommands
       \/ r.class = "ambient" /\ r.fired = "random"
    /\ ~r.response.some
    /\ r.status # "generate_failed"

\* C23: when the generator has nothing to say, no reply is sent and no error
\* is raised for it: the message goes on to the INSERT and, once its row is
\* in the table, it is ingested into every chain of its room and the loop
\* takes the next event.
C23_SilentGeneratorNoError ==
    [][(Iteration /\ GeneratorSilent(ev', res'))
        => /\ sent' = {}
           /\ res'.status \in {"ok", "insert_failed"}
           /\ res'.status = "ok"
                => /\ db' = Append(db, RowOf(ev'))
                   /\ brain' = Ingested(brain, ChainsOf(rooms[RoomKey(ev')]),
                                        ev'.body.val)
                   /\ pc' = "running"]_vars

\* After "ash: hi" was stored, the random category fired on an ambient
\* message and the generator had nothing to say: nothing was sent, the
\* message is in the table and in the pool, and the loop is running.
C23_Witness ==
    /\ nev = 2
    /\ db = <<Row("chat", "example.org", TAlice, TAshHi),
              Row("chat", "example.org", TAlice, THi)>>
    /\ brain[0] = <<TAshHi, THi>>
    /\ res.class = "ambient"
    /\ res.fired = "random"
    /\ ~res.response.some
    /\ sent = {}
    /\ pc = "running"

\* C24: a message stanza is sent only while a message of a registered room
\* is handled, and it is of type groupchat and addressed to the jid of that
\* room without resource: never to another room, never to an occupant.
C24_ReplyToRoom ==
    [][Iteration
        => \A st \in sent' :
            st.kind = "message"
                => /\ IsAccepted(ev')
                   /\ st.type = "groupchat"
                   /\ st.to.node = ev'.from.val.node
                   /\ st.to.domain = ev'.from.val.domain
                   /\ ~st.to.resource.some
                   /\ <<st.to.node.val, st.to.domain>> \in DOMAIN rooms]_vars

\* The reply to a message of room dev went to dev@example.org, after a
\* message of room chat had been handled.
C24_Witness ==
    /\ nev = 2
    /\ Len(db) = 2
    /\ db[1].node = "chat"
    /\ IsAccepted(ev)
    /\ RoomKey(ev) = <<"dev", "example.org">>
    /\ sent = {make_reply(BareJid(Some("dev"), "example.org"), REPO_URL)}

\* The categories in the order they are tried, their match substrings and
\* their fire probabilities (in thousandths).
TryOrder == <<"jabber", "dad", "random">>
Pattern(c) ==
    CASE c = "jabber" -> KwJabber
      [] c = "dad" -> KwDad
      [] c = "random" -> KwEmpty
Pct(c) ==
    CASE c = "jabber" -> JabberPct
      [] c = "dad" -> DadPct
      [] c = "random" -> RandomPct

\* Conditions (a) and (b) for category c on body at Instant t: the minimum
\* interval has passed and the substring is empty or occurs in the
\* lower-cased body.  Only then is a number drawn for c.
Eligible(room, body, c, t) ==
    /\ t - LastSent(room, c) >= MinSeconds(c)
    /\ (Len(Pattern(c)) = 0 \/ contains(to_lowercase(body), Pattern(c)))

\* C25: a category that is tried on an ambient message (no category before
\* it fired) fires iff its minimum interval has passed since its clock, its
\* substring is empty or occurs in the lower-cased body, and the number then
\* drawn for it is below its probability; the clock of the category that
\* fires becomes the current Instant, every other clock is unchanged.
C25_FiresIffAllThree ==
    [][(Iteration /\ IsAccepted(ev') /\ res'.class = "ambient")
        => LET room == rooms[RoomKey(ev')]
               body == ev'.body.val
               drawn == res'.draws
           IN  \A p \in 1..3 :
                LET c == TryOrder[p]
                    nth == 1 + Cardinality({q \in 1..(p - 1) :
                                               Eligible(room, body, TryOrder[q], now)})
                IN  /\ (\A q \in 1..(p - 1) : res'.fired # TryOrder[q])
                        => (res'.fired = c
                              <=> /\ Eligible(room, body, c, now)
                                  /\ nth <= Len(drawn)
                                  /\ drawn[nth] < Pct(c))
                    /\ LastSent(rooms'[RoomKey(ev')], c)
                          = IF res'.fired = c THEN now ELSE LastSent(room, c)]_vars

\* All three categories were eligible for "jabber dad" and none fired,
\* because each number drawn was not below the probability: no clock moved.
C25_Witness ==
    /\ IsAccepted(ev)
    /\ ev.body.val = TJabberDad
    /\ res.class = "ambient"
    /\ res.fired = "none"
    /\ res.draws = <<JabberPct, DadPct, RandomPct>>
    /\ \A c \in Categories : LastSent(rooms[RoomKey(ev)], c) < 0

\* C26: a message whose body begins with the room's nick in any letter
\* case is handled as a directed message; "Ash: repo" in a room of nick
\* "ash" gets the repository URL.
C26_NickAnyCase ==
    [][(Iteration /\ IsAccepted(ev')
            /\ starts_with(to_lowercase(ev'.body.val),
                           to_lowercase(rooms[RoomKey(ev')].nick)))
        => /\ res'.class = "directed"
           /\ ev'.body.val = TCapAshRepo => res'.response = Some(REPO_URL)]_vars

\* C27: a message is handled as directed only when the nick at the start of
\* its body is followed by ',', ':', ' ' or nothing; "ashtray is here" in a
\* room of nick "ash" is handled as ambient.
C27_NickThenSeparator ==
    [][(Iteration /\ IsAccepted(ev'))
        => LET body == ev'.body.val
               n == Len(rooms[RoomKey(ev')].nick)
           IN  /\ res'.class = "directed"
                    => (Len(body) = n \/ body[n + 1] \in Separators)
               /\ body = TAshtray => res'.class = "ambient"]_vars

\* C28: only one occurrence of the nick, with the separator and the blanks
\* after it, is stripped from a directed body: "ashash: repo" and
\* "ash: ash repo" are not the repo command.
C28_OneNickStripped ==
    [][(Iteration /\ IsAccepted(ev') /\ ev'.body.val \in {TAshAshRepo, TAshAshSpRepo})
        => res'.response # Some(REPO_URL)]_vars

\* C29: a directed message is resolved on its stripped body, lower-cased:
\* "jabber" gives the canned correction, "dad" a joke of the corpus, "repo"
\* and "code" the repository URL, "words" the word count, and any other
\* body, the empty one too, is given in its original letter case as seed to
\* the generator of the room's first chain, whose utterance, if any, is the
\* reply.
C29_DirectedResolution ==
    [][(Iteration /\ IsAccepted(ev') /\ res'.class = "directed")
        => LET room == rooms[RoomKey(ev')]
               stripped == strip_nick(ev'.body.val, room.nick)
               folded == to_lowercase(stripped)
               reply == res'.response
           IN  CASE folded = KwJabber -> reply = Some(XMPP_NOT_JABBER)
                 [] folded = KwDad ->
                        reply.some /\ \E i \in 1..Len(DAD_JOKES) : reply.val = DAD_JOKES[i]
                 [] folded \in {KwRepo, KwCode} -> reply = Some(REPO_URL)
                 [] folded = KwWords ->
                        reply = Some(words_reply(get_total_words(brain[Primary(room)])))
                 [] OTHER ->
                        \/ res'.status = "generate_failed"
                        \/ reply = NoneReply
                        \/ reply = Some(Reply("generated", Primary(room), stripped))]_vars

\* After "ash: REPO" was handled and stored, "ash: Hi" was answered with an
\* utterance of chain 0 seeded with "Hi", in its original letter case.
C29_Witness ==
    /\ nev = 2
    /\ Len(db) = 2
    /\ db[1].msg = TAshUpRepo
    /\ ev.body = Some(TAshUpHi)
    /\ res.class = "directed"
    /\ res.response = Some(Reply("generated", 0, <<"H", "i">>))
    /\ res.status = "ok"

\* C30: the keywords are matched on the body with the blanks at its end
\* removed: "ash: repo " (with a trailing space) is the repo command and is
\* not given to the generator.
C30_TrailingBlanksTrimmed ==
    [][(Iteration /\ IsAccepted(ev') /\ ev'.body.val = TAshRepoSp)
        => /\ res'.class = "directed"
           /\ res'.response = Some(REPO_URL)]_vars

\* C31: the dad category has no substring: on an ambient message on which
\* the jabber category did not fire and whose dad interval has passed, a
\* number is drawn for the dad category whatever the body is, and the
\* category fires iff that number is below its probability.
C31_DadSubstringFree ==
    [][(Iteration /\ IsAccepted(ev') /\ res'.class = "ambient"
            /\ res'.fired # "jabber"
            /\ now - rooms[RoomKey(ev')].last_sent_dad >= DadMinSeconds)
        => LET nth == IF Eligible(rooms[RoomKey(ev')], ev'.body.val, "jabber", now)
                      THEN 2 ELSE 1
           IN  /\ nth <= Len(res'.draws)
               /\ res'.fired = "dad" <=> res'.draws[nth] < DadPct]_vars

\* C32: the canned correction is sent only as the reply to a directed
\* message whose stripped body, lower-cased, is "jabber", or to an ambient
\* message whose lower-cased body contains "jabber".
C32_CorrectionOnlyForJabber ==
    [][Iteration
        => \A st \in sent' :
            st.body = XMPP_NOT_JABBER
                => /\ IsAccepted(ev')
                   /\ st = ReplyTo(ev', XMPP_NOT_JABBER)
                   /\ \/ /\ res'.class = "directed"
                         /\ to_lowercase(strip_nick(ev'.body.val,
                                                    rooms[RoomKey(ev')].nick)) = KwJabber
                      \/ /\ res'.class = "ambient"
                         /\ res'.fired = "jabber"
                         /\ contains(to_lowercase(ev'.body.val), KwJabber)]_vars

\* The ambient body "JABBER" got the correction.
C32_Witness ==
    /\ IsAccepted(ev)
    /\ ev.body.val = TUpJabber
    /\ res.class = "ambient"
    /\ res.fired = "jabber"
    /\ sent = {ReplyTo(ev, XMPP_NOT_JABBER)}

\* C33: the random category has no substring and is tried only after the
\* jabber and the dad category were tried and did not fire; when it fires,
\* one more number is drawn: below one half the reply is a joke of the
\* corpus, else it is what the generator of the room's first chain yields
\* for the original body as seed.
C33_RandomCategory ==
    [][(Iteration /\ IsAccepted(ev') /\ res'.class = "ambient")
        => LET room == rooms[RoomKey(ev')]
               body == ev'.body.val
               drawn == res'.draws
               higher == Cardinality({c \in {"jabber", "dad"} :
                                         Eligible(room, body, c, now)})
               tried == now - room.last_sent_random >= RandomMinSeconds
               reply == res'.response
           IN  /\ (res'.fired = "none" /\ tried) => Len(drawn) = higher + 1
               /\ res'.fired = "random"
                    => /\ tried
                       /\ Len(drawn) = higher + 2
                       /\ \A n \in 1..higher : drawn[n] >= JabberPct /\ drawn[n] >= DadPct
                       /\ drawn[higher + 1] < RandomPct
                       /\ drawn[higher + 2] < CoinPct
                            => /\ reply.some
                               /\ \E i \in 1..Len(DAD_JOKES) : reply.val = DAD_JOKES[i]
                       /\ drawn[higher + 2] >= CoinPct
                            => \/ res'.status = "generate_failed"
                               \/ reply = NoneReply
                               \/ reply = Some(Reply("generated", Primary(room), body))]_vars

\* In room dev (first chain 1) both higher categories were eligible for
\* "jabber dad" and did not fire; the random category fired and the second
\* draw chose the generator, seeded with the body.
C33_Witness ==
    /\ IsAccepted(ev)
    /\ RoomKey(ev) = <<"dev", "example.org">>
    /\ ev.body.val = TJabberDad
    /\ res.fired = "random"
    /\ res.draws = <<JabberPct, DadPct, 0, CoinPct>>
    /\ res.response = Some(Reply("generated", 1, TJabberDad))

\* C34: the chain list of every room names no index twice, also when the
\* configured list does, so that no chain ingests a stored message more
\* than once: no chain holds more bodies than the table has rows.
C34_ChainListDeduplicated ==
    pc \in {"replay", "running", "failed"}
        => /\ \A k \in DOMAIN rooms :
                \A i, j \in 1..Len(rooms[k].chain_indices) :
                    i # j => rooms[k].chain_indices[i] # rooms[k].chain_indices[j]
           /\ \A i \in DOMAIN brain : Len(brain[i]) <= Len(db)

\* C35: from the registry's construction until the first event, whenever
\* that comes, the minimum interval of every category of every room has
\* already passed: the first ambient message can fire any category whose
\* substring and draw conditions hold.
C35_InitialCooldownsElapsed ==
    (pc \in {"replay", "running"} /\ nev = 0)
        => /\ DOMAIN rooms # {}
           /\ \A k \in DOMAIN rooms : \A c \in Categories :
                now - LastSent(rooms[k], c) >= MinSeconds(c)

\* The very first event, at the Instant of startup, was an ambient message
\* on which the dad category (minimum interval 300 s) fired.
C35_Witness ==
    /\ nev = 1
    /\ now = 0
    /\ IsAccepted(ev)
    /\ ev.body.val = TJabberDad
    /\ res.fired = "dad"
    /\ rooms[RoomKey(ev)].last_sent_dad = 0

\* C36: the clocks are per room: handling an event leaves every clock of
\* every room other than the room of the handled message unchanged.
C36_CooldownsPerRoom ==
    [][Iteration
        => \A k \in DOMAIN rooms :
            (~IsAccepted(ev') \/ k # RoomKey(ev'))
                => /\ k \in DOMAIN rooms'
                   /\ \A c \in Categories :
                        LastSent(rooms'[k], c) = LastSent(rooms[k], c)]_vars

\* The jabber category fired in room chat and then, at the same Instant, in
\* room dev.
C36_Witness ==
    /\ nev = 2
    /\ IsAccepted(ev)
    /\ RoomKey(ev) = <<"dev", "example.org">>
    /\ res.fired = "jabber"
    /\ rooms[<<"dev", "example.org">>].last_sent_jabber = now
    /\ rooms[<<"chat", "example.org">>].last_sent_jabber = now

\* C37: once built, the registry is fixed: no step adds or removes a room or
\* changes the nick, the jid or the chain list of a room, and only the
\* handling of an accepted message changes a room at all (its clocks).
C37_RegistryFixed ==
    [][pc # "start"
        => /\ DOMAIN rooms' = DOMAIN rooms
           /\ \A k \in DOMAIN rooms :
                /\ rooms'[k].nick = rooms[k].nick
                /\ rooms'[k].jid = rooms[k].jid
                /\ rooms'[k].chain_indices = rooms[k].chain_indices
           /\ ~(Iteration /\ IsAccepted(ev')) => rooms' = rooms]_vars

\* After two messages, one of which made the jabber category fire in room
\* chat, the registry has the two rooms with their nick and chain lists.
C37_Witness ==
    /\ nev = 2
    /\ DOMAIN rooms = {<<"chat", "example.org">>, <<"dev", "example.org">>}
    /\ rooms[<<"chat", "example.org">>].last_sent_jabber >= 0
    /\ rooms[<<"chat", "example.org">>].nick = TAsh
    /\ rooms[<<"chat", "example.org">>].chain_indices = <<0>>
    /\ rooms[<<"dev", "example.org">>].chain_indices = <<1, 0>>
    /\ rooms[<<"dev", "example.org">>].jid = Jid(Some("dev"), "example.org", Some(TAsh))

\* The nick the configuration gives its j-th room: the room's own, else the
\* bot-wide one, else the local part of the bot's jid, else "ash".
EffectiveNick(config, j) ==
    IF config.rooms[j].nick.some THEN config.rooms[j].nick.val
    ELSE IF config.nick.some THEN config.nick.val
    ELSE IF config.jid.node.some THEN config.jid.node.val
    ELSE <<"a", "s", "h">>

\* The registry key of the j-th configured room.
ConfiguredKey(config, j) == <<config.rooms[j].room.node.val, config.rooms[j].room.domain>>

\* C38: every room has the nick given by that precedence, and it is that
\* nick which is the resource of the room's join, which makes a message a
\* self-echo when it is the sender's resource, and which makes a message
\* directed when the body begins with it.
C38_EffectiveNick ==
    [][pc # "start"
        => \A j \in 1..Len(cfg.rooms) :
            LET k == ConfiguredKey(cfg, j)
                nick == EffectiveNick(cfg, j)
            IN  /\ k \in DOMAIN rooms
                /\ rooms[k].nick = nick
                /\ (Iteration /\ ev'.kind = "online")
                    => \A st \in sent' :
                        (st.to.node.val = k[1] /\ st.to.domain = k[2])
                            => st.to.resource = Some(nick)
                /\ (Iteration /\ InRegistered(ev') /\ RoomKey(ev') = k)
                    => /\ res'.class = "self_echo" <=> ev'.from.val.resource.val = nick
                       /\ res'.class = "directed"
                            <=> /\ ev'.from.val.resource.val # nick
                                /\ starts_with(ev'.body.val, nick)]_vars

\* Room chat has its own nick bob and room dev the bot-wide nick al: in
\* room dev "al: repo" was directed and answered, after an event that stored
\* nothing.
C38_Witness ==
    /\ cfg = RoomNickConfig
    /\ nev = 2
    /\ rooms[<<"chat", "example.org">>].nick = TBob
    /\ rooms[<<"dev", "example.org">>].nick = TAl
    /\ db = <<Row("dev", "example.org", TAlice, TAlRepo)>>
    /\ ev = GroupchatFrom("dev", TAlice, TAlRepo)
    /\ res.class = "directed"
    /\ res.response = Some(REPO_URL)

\* C39: handling a directed message changes none of the three clocks of its
\* room (nor anything else of the registry), draws no number and makes no
\* category fire, also when its body contains "jabber" or "dad".
C39_DirectedLeavesClocks ==
    [][(Iteration /\ IsAccepted(ev') /\ res'.class = "directed")
        => /\ rooms' = rooms
           /\ res'.fired = "none"
           /\ res'.draws = <<>>]_vars

\* "ash: my dad uses jabber" was handled as directed when all categories
\* were eligible: the generator answered and the clocks are as at startup.
C39_Witness ==
    /\ nev = 1
    /\ ev = GroupchatFrom("chat", TAlice, TAshDadJabber)
    /\ res.class = "directed"
    /\ res.response.some
    /\ res.response.val.kind = "generated"
    /\ \A c \in Categories :
        /\ LastSent(rooms[RoomKey(ev)], c) = now - LongAgoSecs
        /\ Eligible(rooms[RoomKey(ev)], ev.body.val, c, now)

\* C40: once the pool exists, it has the indices 0 .. size - 1 with size at
\* least 1, and every entry of every room's chain list is below size: the
\* replay, the live ingests, generate and the word count index inside it.
C40_IndicesWithinPool ==
    (pc = "running" \/ nev > 0)
        => LET size == Cardinality(DOMAIN brain)
           IN  /\ size >= 1
               /\ DOMAIN brain = 0..(size - 1)
               /\ \A k \in DOMAIN rooms :
                    \A n \in 1..Len(rooms[k].chain_indices) :
                        rooms[k].chain_indices[n] < size

\* With the lists [1] and [2] the pool has three brains; a row was replayed
\* into chains 1 and 0 and a live message of room dev was answered from
\* chain 2 and ingested into chains 2 and 0.
C40_Witness ==
    /\ cfg = SplitConfig
    /\ nev = 1
    /\ Cardinality(DOMAIN brain) = 3
    /\ ev = GroupchatFrom("dev", TAlice, TAshHi)
    /\ res.response = Some(Reply("generated", 2, THi))
    /\ brain[1] = <<THi>>
    /\ brain[2] = <<TAshHi>>
    /\ brain[0] = <<THi, TAshHi>>

====
